---- MODULE Spec2Model ----
(***************************************************************************)
(* Model of FünfMinutenLicht.js: the BTHome service-data decoder           *)
(* (BTHomeDecoder), the BLE scan callback with its duplicate filter        *)
(* (BLEScanCallback, lastPacketId), the address filter and handler         *)
(* dispatch (onReceivedPacket) and the start-up code (init).               *)
(*                                                                         *)
(* JavaScript values are represented as follows.                           *)
(*   - a byte string is a sequence of integers 0..255;                     *)
(*   - a MAC address string is a sequence of one-character strings;        *)
(*   - a value that may be a string/array, null or undefined is a record   *)
(*     [t |-> typeof-tag, v |-> payload];                                  *)
(*   - an object (the decoded record) is a function from property names    *)
(*     to values; the null returned by unpack is NullRecord;               *)
(*   - a number scaled by a factor 1/d (0.01, 0.1) is the rational         *)
(*     [n |-> raw, d |-> d]; floating point rounding is not modelled.      *)
(***************************************************************************)
EXTENDS Integers, Sequences, FiniteSets, TLC

VARIABLES
    pc,                       \* "boot" before init(), then "subscribed" or "exited"
    allowedMacAddresses,      \* CONFIG.allowedMacAddresses
    _processedMacAddresses,   \* CONFIG._processedMacAddresses
    lastPacketId,             \* the global of line 331
    arg,                      \* arguments of the latest BLEScanCallback
    outcome,                  \* return path the latest BLEScanCallback took
    data,                     \* record handed to onReceivedPacket by the latest callback
    calls,                    \* handlers invoked by the latest callback, in order
    switchOn,                 \* latest callback issued Shelly.call("Switch.Set", on)
    before,                   \* lastPacketId when the latest callback was entered
    prev,                     \* pid and return path of the callback before the latest
    seen,                     \* addresses whose pid-carrying records got past the decoder
                              \* in callbacks before the latest
    input,                    \* decoder harness: how the buffer was built, and the buffer
    output,                   \* decoder harness: value returned by unpack
    dpc,                      \* decoder harness: "ready", "loop", "done" or "fault"
    frame                     \* locals of unpack while it runs: buffer, result and
                              \* the passes of the while loop made so far

vars == <<pc, allowedMacAddresses, _processedMacAddresses, lastPacketId,
          arg, outcome, data, calls, switchOn, before, prev, seen, input, output, dpc,
          frame>>

scanVars == <<pc, allowedMacAddresses, _processedMacAddresses, lastPacketId,
              arg, outcome, data, calls, switchOn, before, prev, seen>>

decVars == <<input, output, dpc, frame>>

----------------------------------------------------------------------------
(* Bounds of the model *)

MaxFields == 2      \* well-formed (tag, value) fields in a generated payload
MaxTail   == 3      \* arbitrary bytes appended after the well-formed fields
MaxMacs   == 2      \* entries of CONFIG.allowedMacAddresses
MaxBuf    == 4      \* bytes of a buffer handed to getBufValue
MaxPayload == 5     \* bytes behind the header byte when unpack is run in steps

----------------------------------------------------------------------------
(* Type codes, lines 115-120 *)

uint8  == 0
int8   == 1
uint16 == 2
int16  == 3
uint24 == 4
int24  == 5

(* null as returned by getBufValue: an integer no read can produce *)
null == 0 - 16777217

(* undefined as the value of a missing numeric property (record.pid) *)
undefined == 0 - 1

(* the null returned by unpack *)
NullRecord == [null |-> TRUE]

(* CONFIG.illuThreshold, line 59 *)
illuThreshold == 15

(* "no factor": the f property of a BTH entry is undefined *)
NoFactor == 0

----------------------------------------------------------------------------
(* Bit operations of JavaScript on non-negative 32 bit operands *)

(* the operands are function arguments, so each is evaluated once *)
AndBits[a \in Nat, b \in Nat] ==
    IF a = 0 \/ b = 0 THEN 0
    ELSE (IF a % 2 = 1 /\ b % 2 = 1 THEN 1 ELSE 0) + 2 * AndBits[a \div 2, b \div 2]

BitAnd(a, b) == AndBits[a, b]

OrBits[a \in Nat, b \in Nat] ==
    IF a = 0 THEN b
    ELSE IF b = 0 THEN a
    ELSE (IF a % 2 = 1 \/ b % 2 = 1 THEN 1 ELSE 0) + 2 * OrBits[a \div 2, b \div 2]

BitOr(a, b) == OrBits[a, b]

Shl(a, n) == a * 2^n

Shr(a, n) == a \div 2^n

InitialPacketId_inRange == Shl(1, 8) - 1

(* let lastPacketId = 0x100, line 331 *)
InitialPacketId == 256

(* buffer.at( i ), zero based *)
at(buffer, i) == IF i + 1 \in DOMAIN buffer THEN buffer[i + 1] ELSE 0

(* buffer.slice( n ) *)
slice(buffer, n) == IF n >= Len(buffer) THEN <<>> ELSE SubSeq(buffer, n + 1, Len(buffer))

----------------------------------------------------------------------------
(* The BTH object, lines 165-174; f is the reciprocal of the factor *)

BTH ==
    (0  :> [n |-> "pid",         t |-> uint8,  f |-> NoFactor]) @@
    (1  :> [n |-> "battery",     t |-> uint8,  f |-> NoFactor]) @@
    (2  :> [n |-> "temperature", t |-> int16,  f |-> 100]) @@
    (3  :> [n |-> "humidity",    t |-> uint16, f |-> 100]) @@
    (5  :> [n |-> "illuminance", t |-> uint24, f |-> 100]) @@
    (33 :> [n |-> "motion",      t |-> uint8,  f |-> NoFactor]) @@
    (45 :> [n |-> "window",      t |-> uint8,  f |-> NoFactor]) @@
    (58 :> [n |-> "button",      t |-> uint8,  f |-> NoFactor]) @@
    (63 :> [n |-> "rotation",    t |-> int16,  f |-> 10])

getByteSize_one(type) == IF type \in {uint8, int8, uint16, int16, uint24, int24} THEN 1 ELSE 255

getByteSize(type) ==
    IF type = uint8 \/ type = int8 THEN 1
    ELSE IF type = uint16 \/ type = int16 THEN 2
    ELSE IF type = uint24 \/ type = int24 THEN 3
    ELSE 255

----------------------------------------------------------------------------
(* BTHomeDecoder, lines 197-290 *)

utoi_unsigned(num, bitsz) == num

utoi_halfRange(num, bitsz) ==
    LET mask == Shl(1, bitsz - 1)
    IN  IF BitAnd(num, mask) # 0 THEN num - mask ELSE num

utoi(num, bitsz) ==
    LET mask == Shl(1, bitsz - 1)
    IN  IF BitAnd(num, mask) # 0 THEN num - Shl(1, bitsz) ELSE num

getUInt8(buffer) == at(buffer, 0)

getInt8(buffer) == utoi(getUInt8(buffer), 8)

getUInt16LE_bigEndian(buffer) ==
    BitAnd(65535, BitOr(Shl(at(buffer, 0), 8), at(buffer, 1)))

getUInt16LE(buffer) ==
    BitAnd(65535, BitOr(Shl(at(buffer, 1), 8), at(buffer, 0)))

getInt16LE(buffer) == utoi(getUInt16LE(buffer), 16)

getUInt24LE(buffer) ==
    BitAnd(16777215,
           BitOr(BitOr(Shl(at(buffer, 2), 16), Shl(at(buffer, 1), 8)), at(buffer, 0)))

getInt24LE(buffer) == utoi(getUInt24LE(buffer), 24)

readByType(type, buffer) ==
    IF type = int24 THEN getInt24LE(buffer)
    ELSE IF type = uint24 THEN getUInt24LE(buffer)
    ELSE IF type = int16 THEN getInt16LE(buffer)
    ELSE IF type = uint16 THEN getUInt16LE(buffer)
    ELSE IF type = int8 THEN getInt8(buffer)
    ELSE IF type = uint8 THEN getUInt8(buffer)
    ELSE null

getBufValue_nocheck(type, buffer) == readByType(type, buffer)

getBufValue(type, buffer) ==
    IF Len(buffer) < getByteSize(type) THEN null
    ELSE readByType(type, buffer)

(* _value * _bth.f, applied only when _bth.f is defined (line 284) *)
scale(_value, f) == IF f # NoFactor THEN [n |-> _value, d |-> f] ELSE _value

(* result [name] = value *)
put(result, name, value) == (name :> value) @@ result

(* the while loop of unpack, lines 272-287: the record at the time the loop ends *)
RECURSIVE unpackLoop_skipUnknown(_, _)
unpackLoop_skipUnknown(buffer, result) ==
    IF Len(buffer) = 0 THEN result
    ELSE IF at(buffer, 0) \notin DOMAIN BTH
         THEN unpackLoop_skipUnknown(slice(buffer, 1), result)
         ELSE LET _bth   == BTH[at(buffer, 0)]
                  rest   == slice(buffer, 1)
                  _value == getBufValue(_bth.t, rest)
              IN  IF _value = null THEN result
                  ELSE unpackLoop_skipUnknown(slice(rest, getByteSize(_bth.t)),
                                              put(result, _bth.n, scale(_value, _bth.f)))

RECURSIVE unpackLoop(_, _)
unpackLoop(buffer, result) ==
    IF Len(buffer) = 0 THEN result
    ELSE IF at(buffer, 0) \notin DOMAIN BTH
         THEN result
         ELSE LET _bth   == BTH[at(buffer, 0)]
                  rest   == slice(buffer, 1)
                  _value == getBufValue(_bth.t, rest)
              IN  IF _value = null THEN result
                  ELSE unpackLoop(slice(rest, getByteSize(_bth.t)),
                                  put(result, _bth.n, scale(_value, _bth.f)))

(* the header part of the record, lines 259-262 *)
header(_dib) ==
    [encryption     |-> BitAnd(_dib, 1) # 0,
     BTHome_version |-> Shr(_dib, 5)]

unpack_noEncryptionCheck(buffer) ==
    IF buffer.t # "string" \/ Len(buffer.v) = 0 THEN NullRecord
    ELSE LET result == header(at(buffer.v, 0))
         IN  IF result.BTHome_version # 2 THEN NullRecord
             ELSE unpackLoop(slice(buffer.v, 1), result)

unpack(buffer) ==
    IF buffer.t # "string" \/ Len(buffer.v) = 0 THEN NullRecord
    ELSE LET result == header(at(buffer.v, 0))
         IN  IF result.BTHome_version # 2 THEN NullRecord
             ELSE IF result.encryption THEN result
             ELSE unpackLoop(slice(buffer.v, 1), result)

----------------------------------------------------------------------------
(* Decoder harness: the buffers handed to unpack.                          *)
(* A buffer is built from a header byte, a sequence of well-formed fields  *)
(* (tag, little-endian value of the tag's width) and a tail of arbitrary   *)
(* bytes; with no fields it is an arbitrary byte string.                   *)

Byte == 0 .. 255

(* header bytes used in front of generated fields: version 2, unencrypted *)
PlainHeaders == {64, 68}

(* bytes of the tail: the tags of a 1, a 2 and a 3 byte field (which also *)
(* serve as value bytes) and a byte that is no tag                        *)
TailBytes == {0, 2, 5, 255}

(* raw values encoded for each registry tag *)
RawSample(tag) ==
    CASE tag = 0  -> {5, 200}
      [] tag = 1  -> {100}
      [] tag = 2  -> {0 - 2}
      [] tag = 3  -> {40000}
      [] tag = 5  -> {109, 9000000}
      [] tag = 33 -> {1}
      [] tag = 45 -> {0}
      [] tag = 58 -> {254}
      [] tag = 63 -> {300}

FieldSample == UNION {{[tag |-> tag, raw |-> raw] : raw \in RawSample(tag)} : tag \in DOMAIN BTH}

SeqsUpTo(S, n) == UNION {[1 .. k -> S] : k \in 0 .. n}

(* the synthetic encoder: tag byte, then the value in two's complement, *)
(* least significant byte first                                         *)
encodeField(fld) ==
    LET w == getByteSize(BTH[fld.tag].t)
        u == fld.raw % (256 ^ w)
    IN  <<fld.tag>> \o [i \in 1 .. w |-> (u \div (256 ^ (i - 1))) % 256]

RECURSIVE encodeFields(_)
encodeFields(fields) ==
    IF fields = <<>> THEN <<>>
    ELSE encodeField(Head(fields)) \o encodeFields(Tail(fields))

String(bytes) == [t |-> "string", v |-> bytes]

NotAString(type) == [t |-> type, v |-> <<>>]

build(hdr, fields, tail) ==
    [hdr |-> hdr, fields |-> fields, tail |-> tail,
     buffer |-> String(<<hdr>> \o encodeFields(fields) \o tail)]

(* the three families of buffers: arbitrary bytes behind any header byte,  *)
(* well-formed fields plus a tail behind a plain header, and no bytes      *)
IsDecoderInput(in) ==
    \/ \E hdr \in Byte, tail \in SeqsUpTo(TailBytes, MaxTail) :
           in = build(hdr, <<>>, tail)
    \/ \E hdr \in PlainHeaders, k \in 1 .. MaxFields :
       \E fields \in [1 .. k -> FieldSample], tail \in SeqsUpTo(TailBytes, MaxTail) :
           in = build(hdr, fields, tail)
    \/ \E b \in {String(<<>>), NotAString("number"), NotAString("object")} :
           in = [hdr |-> 0, fields |-> <<>>, tail |-> <<>>, buffer |-> b]

NoArg == [event |-> "none", service_data |-> NotAString("undefined"), addr |-> <<>>, rssi |-> 0]

(* the scanner side does not move while the decoder harness runs *)
ScanIdle ==
    /\ pc = "boot"
    /\ allowedMacAddresses = [t |-> "null", v |-> <<>>]
    /\ _processedMacAddresses = [t |-> "undefined", v |-> <<>>]
    /\ lastPacketId = InitialPacketId
    /\ arg = NoArg
    /\ outcome = "none"
    /\ data = NullRecord
    /\ calls = <<>>
    /\ switchOn = FALSE
    /\ before = InitialPacketId
    /\ prev = [pid |-> undefined, outcome |-> "none"]
    /\ seen = {}

(* unpack is not running *)
NoFrame == [buffer |-> <<>>, result |-> NullRecord, iterations |-> 0]

InitDecoder ==
    /\ ScanIdle
    /\ frame = NoFrame
    /\ IsDecoderInput(input)
    /\ output = NullRecord
    /\ dpc = "ready"

(* let unpackedData = BTHomeDecoder.unpack( ... ) *)
Unpack ==
    /\ dpc = "ready"
    /\ output' = unpack(input.buffer)
    /\ dpc' = "done"
    /\ UNCHANGED <<input, frame, scanVars>>

NextDecoder == Unpack

SpecDecoder == InitDecoder /\ [][NextDecoder]_vars

(* One read of getBufValue, as at line 280: a type code and the bytes that *)
(* follow the tag.  The bytes are the ends and the middle of the range.    *)
ByteSample == {0, 1, 2, 109, 127, 128, 200, 255}

TypeCodes == {uint8, int8, uint16, int16, uint24, int24}

InitReads ==
    /\ ScanIdle
    /\ frame = NoFrame
    /\ \E type \in TypeCodes, len \in 0 .. MaxBuf :
           \E buffer \in [1 .. len -> ByteSample] :
               input = [type |-> type, buffer |-> buffer]
    /\ output = null
    /\ dpc = "ready"

(* _value = this.getBufValue( _bth.t, buffer ) *)
GetBufValue ==
    /\ dpc = "ready"
    /\ output' = getBufValue(input.type, input.buffer)
    /\ dpc' = "done"
    /\ UNCHANGED <<input, frame, scanVars>>

NextReads == GetBufValue

SpecReads == InitReads /\ [][NextReads]_vars

----------------------------------------------------------------------------
(* unpack run in steps: the part before the loop, then one pass of the     *)
(* while loop per step.  A step yields where control goes (to), and the    *)
(* locals buffer and result.  Reading a property of undefined, or calling  *)
(* at() on a value that is no string, raises a TypeError: to = "fault".    *)

(* lines 258-268 *)
enter(buffer) ==
    IF buffer.t # "string" \/ Len(buffer.v) = 0
    THEN [to |-> "done", buffer |-> <<>>, result |-> NullRecord]
    ELSE IF buffer.t # "string"
    THEN [to |-> "fault", buffer |-> <<>>, result |-> NullRecord]
    ELSE LET result == header(at(buffer.v, 0))
         IN  IF result.BTHome_version # 2
             THEN [to |-> "done", buffer |-> buffer.v, result |-> NullRecord]
             ELSE IF result.encryption
             THEN [to |-> "done", buffer |-> buffer.v, result |-> result]
             ELSE [to |-> "loop", buffer |-> slice(buffer.v, 1), result |-> result]

(* BTH [buffer.at( 0 )] *)
lookup(tag) == IF tag \in DOMAIN BTH THEN [t |-> "object", v |-> BTH[tag]]
               ELSE NotAString("undefined")

iterate_noTypeofCheck(buffer, result) ==
    IF Len(buffer) = 0 THEN [to |-> "done", buffer |-> buffer, result |-> result]
    ELSE LET _bth == lookup(at(buffer, 0))
         IN  IF _bth.t # "object"
             THEN [to |-> "fault", buffer |-> slice(buffer, 1), result |-> result]
             ELSE LET rest   == slice(buffer, 1)
                      _value == getBufValue(_bth.v.t, rest)
                  IN  IF _value = null
                      THEN [to |-> "done", buffer |-> rest, result |-> result]
                      ELSE [to |-> "loop",
                            buffer |-> slice(rest, getByteSize(_bth.v.t)),
                            result |-> put(result, _bth.v.n, scale(_value, _bth.v.f))]

(* the test of the while loop and one pass of its body, lines 272-287 *)
iterate(buffer, result) ==
    IF Len(buffer) = 0 THEN [to |-> "done", buffer |-> buffer, result |-> result]
    ELSE LET _bth == lookup(at(buffer, 0))
         IN  IF _bth.t = "undefined"
             THEN [to |-> "done", buffer |-> buffer, result |-> result]
             ELSE IF _bth.t # "object"
             THEN [to |-> "fault", buffer |-> slice(buffer, 1), result |-> result]
             ELSE LET rest   == slice(buffer, 1)
                      _value == getBufValue(_bth.v.t, rest)
                  IN  IF _value = null
                      THEN [to |-> "done", buffer |-> rest, result |-> result]
                      ELSE [to |-> "loop",
                            buffer |-> slice(rest, getByteSize(_bth.v.t)),
                            result |-> put(result, _bth.v.n, scale(_value, _bth.v.f))]

LoopHeaders == {64, 65, 32}

(* unpack has not been called *)
NoInput == [hdr |-> 0, fields |-> <<>>, tail |-> <<>>, buffer |-> NotAString("undefined")]

InitLoop ==
    /\ ScanIdle
    /\ input = NoInput
    /\ output = NullRecord
    /\ dpc = "idle"
    /\ frame = NoFrame

(* BTHomeDecoder.unpack( result.service_data [BTHOME_SVC_ID_STR] ), line 353 *)
Call ==
    /\ dpc = "idle"
    /\ \/ \E hdr \in LoopHeaders, payload \in SeqsUpTo(TailBytes, MaxPayload) :
              input' = build(hdr, <<>>, payload)
       \/ \E b \in {String(<<>>), NotAString("number"), NotAString("undefined")} :
              input' = [hdr |-> 0, fields |-> <<>>, tail |-> <<>>, buffer |-> b]
    /\ dpc' = "ready"
    /\ UNCHANGED <<output, frame, scanVars>>

(* unpack up to the while loop *)
Enter ==
    /\ dpc = "ready"
    /\ LET step == enter(input.buffer)
       IN  /\ frame' = [buffer |-> step.buffer, result |-> step.result, iterations |-> 0]
           /\ dpc' = step.to
           /\ output' = IF step.to = "done" THEN step.result ELSE output
    /\ UNCHANGED <<input, scanVars>>

(* the test of the while loop, then one pass of its body or return result *)
Iterate ==
    /\ dpc = "loop"
    /\ LET step == iterate(frame.buffer, frame.result)
       IN  /\ frame' = [buffer |-> step.buffer, result |-> step.result,
                        iterations |-> frame.iterations +
                                       IF Len(frame.buffer) > 0 THEN 1 ELSE 0]
           /\ dpc' = step.to
           /\ output' = IF step.to = "done" THEN step.result ELSE output
    /\ UNCHANGED <<input, scanVars>>

NextLoop == Call \/ Enter \/ Iterate

(* unpack is synchronous straight-line code: once called it runs on *)
SpecLoop == InitLoop /\ [][NextLoop]_vars /\ WF_vars(NextLoop)

----------------------------------------------------------------------------
(* Reference semantics of a well-formed payload, stated on the (tag, raw)  *)
(* pairs and not on bytes: a name maps to the value of the last pair that  *)
(* carries its tag, divided by the reciprocal factor when one is declared. *)

HeaderNames == {"encryption", "BTHome_version"}

LastIndex(fields, name) ==
    CHOOSE i \in DOMAIN fields :
        /\ BTH[fields[i].tag].n = name
        /\ \A j \in DOMAIN fields : BTH[fields[j].tag].n = name => j <= i

Expected(fields) ==
    [name \in HeaderNames \cup {BTH[fields[i].tag].n : i \in DOMAIN fields} |->
        IF name = "encryption" THEN FALSE
        ELSE IF name = "BTHome_version" THEN 2
        ELSE LET fld == fields[LastIndex(fields, name)]
                 f   == BTH[fld.tag].f
             IN  IF f = NoFactor THEN fld.raw ELSE [n |-> fld.raw, d |-> f]]

Version(hdr) == hdr \div 32

Encrypted(hdr) == hdr % 2 = 1

Decoded == dpc = "done" /\ input.buffer.t = "string" /\ Len(input.buffer.v) > 0

(* C5: header gating. For a non-empty payload: a version other than 2      *)
(* gives null; version 2 with the encryption flag gives a record holding   *)
(* the two header fields only; a result with any field beyond the header   *)
(* comes from a version 2, unencrypted payload.                            *)
C5_HeaderGating ==
    Decoded =>
        /\ Version(input.hdr) # 2 => output = NullRecord
        /\ (Version(input.hdr) = 2 /\ Encrypted(input.hdr)) =>
               output = [encryption |-> TRUE, BTHome_version |-> 2]
        /\ (output # NullRecord /\ DOMAIN output # HeaderNames) =>
               (Version(input.hdr) = 2 /\ ~Encrypted(input.hdr))
        /\ input.hdr = 64 => (output # NullRecord /\ output.BTHome_version = 2
                                 /\ output.encryption = FALSE)
        /\ input.hdr = 65 => (output # NullRecord /\ output.BTHome_version = 2
                                 /\ output.encryption = TRUE)

(* an encrypted version 2 payload whose bytes after the header would decode *)
C5_Witness ==
    /\ Decoded
    /\ input.hdr = 65
    /\ input.tail = <<0, 5>>
    /\ output = [encryption |-> TRUE, BTHome_version |-> 2]

(* the tail starts with a byte that is no registry tag *)
UnknownTagTail == input.tail # <<>> /\ input.tail[1] \notin DOMAIN BTH

(* the tail is a registry tag followed by fewer bytes than its width *)
TruncatedTail ==
    /\ input.tail # <<>>
    /\ input.tail[1] \in DOMAIN BTH
    /\ Len(input.tail) - 1 < getByteSize(BTH[input.tail[1]].t)

PlainHeader == Version(input.hdr) = 2 /\ ~Encrypted(input.hdr)

(* C7: unknown tag recovery. When the bytes after the well-formed fields   *)
(* start with an unknown tag, the result is exactly the record of the      *)
(* fields before it: each with its value, nothing from the bytes after.    *)
C7_UnknownTag ==
    (Decoded /\ PlainHeader /\ UnknownTagTail) => output = Expected(input.fields)

(* header, pid = 5, then the unknown tag 0xFF and two more bytes *)
C7_Witness ==
    /\ Decoded
    /\ input.hdr = 64
    /\ input.fields = <<[tag |-> 0, raw |-> 5]>>
    /\ input.tail = <<255, 0, 5>>
    /\ output = [encryption |-> FALSE, BTHome_version |-> 2, pid |-> 5]

(* C8: truncation recovery. When a registry tag is followed by fewer bytes *)
(* than its width, the result is exactly the record of the fields before   *)
(* it, and it has an entry under the truncated tag's name only if one of   *)
(* those fields carries that tag.                                          *)
C8_Truncated ==
    (Decoded /\ PlainHeader /\ TruncatedTail) =>
        /\ output = Expected(input.fields)
        /\ BTH[input.tail[1]].n \in DOMAIN output =>
               \E i \in DOMAIN input.fields : input.fields[i].tag = input.tail[1]

(* header, pid = 5, then the 3 byte illuminance tag with 2 bytes left *)
C8_Witness ==
    /\ Decoded
    /\ input.hdr = 64
    /\ input.fields = <<[tag |-> 0, raw |-> 5]>>
    /\ input.tail = <<5, 5, 0>>
    /\ output = [encryption |-> FALSE, BTHome_version |-> 2, pid |-> 5]

(* C9: decoder correctness on well-formed input. A version 2, unencrypted  *)
(* payload of encoded (tag, value) pairs decodes to the record that maps   *)
(* each field name to the encoded value (signed for signed types) scaled   *)
(* by the field's factor.                                                  *)
C9_RoundTrip ==
    (Decoded /\ PlainHeader /\ input.tail = <<>>) => output = Expected(input.fields)

(* the bytes 40 00 05 05 6d 00 00: pid = 5, illuminance = 109 / 100 *)
C9_Witness ==
    /\ Decoded
    /\ input.buffer.v = <<64, 0, 5, 5, 109, 0, 0>>
    /\ input.tail = <<>>
    /\ output = [encryption |-> FALSE, BTHome_version |-> 2, pid |-> 5,
                 illuminance |-> [n |-> 109, d |-> 100]]

(* a signed field with a negative value *)
C9_WitnessSigned ==
    /\ Decoded
    /\ input.fields = <<[tag |-> 2, raw |-> 0 - 2]>>
    /\ input.buffer.v = <<64, 2, 254, 255>>
    /\ output.temperature = [n |-> 0 - 2, d |-> 100]

----------------------------------------------------------------------------
(* Strings and arrays of the address filter *)

(* String.prototype.toLowerCase, character by character *)
lowerChar(c) ==
    CASE c = "A" -> "a" [] c = "B" -> "b" [] c = "C" -> "c"
      [] c = "D" -> "d" [] c = "E" -> "e" [] c = "F" -> "f"
      [] OTHER -> c

toLowerCase(mac) == [i \in DOMAIN mac |-> lowerChar(mac[i])]

(* Array.prototype.indexOf, zero based, -1 when absent *)
indexOf(array, value) ==
    IF \E i \in DOMAIN array : array[i] = value
    THEN (CHOOSE i \in DOMAIN array :
              array[i] = value /\ \A j \in DOMAIN array : array[j] = value => i <= j) - 1
    ELSE 0 - 1

(* .map( function( mac ) { return mac.toLowerCase(); } ) *)
map(array) == [i \in DOMAIN array |-> toLowerCase(array[i])]

(* .filter( function( value, index, array ) { return array.indexOf(value) === index; } ) *)
RECURSIVE filterFrom(_, _)
filterFrom(array, index) ==
    IF index >= Len(array) THEN <<>>
    ELSE (IF indexOf(array, array[index + 1]) = index THEN <<array[index + 1]>> ELSE <<>>)
         \o filterFrom(array, index + 1)

filter(array) == filterFrom(array, 0)

Undefined == [t |-> "undefined", v |-> <<>>]

Null == [t |-> "null", v |-> <<>>]

Array(a) == [t |-> "array", v |-> a]

----------------------------------------------------------------------------
(* onReceivedPacket, lines 297-325, with the handlers of CONFIG (72-108).  *)
(* The value is what the call did: the handlers invoked in order, whether  *)
(* the motion handler switched the light on, and how the call ended.       *)

(* typeof data.x !== "undefined" *)
has(record, name) == name \in DOMAIN record

(* CONFIG.motionHandler: motion && eventData.illuminance < CONFIG.illuThreshold *)
motionHandler(motion, eventData) ==
    /\ motion
    /\ has(eventData, "illuminance")
    /\ eventData.illuminance.n < illuThreshold * eventData.illuminance.d

(* the handlers whose condition holds, in the order of lines 308-324 *)
handlersFor(packet) ==
    (IF has(packet, "motion") THEN <<"motionHandler">> ELSE <<>>)
    \o (IF has(packet, "illuminance") THEN <<"illuminanceHandler">> ELSE <<>>)
    \o <<"onStatusUpdate">>

handlersFor_swapped(packet) ==
    (IF has(packet, "illuminance") THEN <<"illuminanceHandler">> ELSE <<>>)
    \o (IF has(packet, "motion") THEN <<"motionHandler">> ELSE <<>>)
    \o <<"onStatusUpdate">>

(* the calls are made one after the other with no try/catch around them:  *)
(* an exception raised by a handler leaves onReceivedPacket, so the calls *)
(* made are those up to and including the first handler that throws      *)
RECURSIVE callsMade(_, _)
callsMade(handlers, throwing) ==
    IF handlers = <<>> THEN <<>>
    ELSE IF Head(handlers) \in throwing THEN <<Head(handlers)>>
    ELSE <<Head(handlers)>> \o callsMade(Tail(handlers), throwing)

dispatch(handlers, packet, throwing) ==
    LET made == callsMade(handlers, throwing)
    IN  [outcome  |-> IF made # <<>> /\ made[Len(made)] \in throwing
                      THEN "handlerFault" ELSE "dispatched",
         calls    |-> made,
         switchOn |-> /\ has(packet, "motion")
                      /\ "motionHandler" \notin throwing
                      /\ motionHandler(packet.motion = 1, packet)]

onReceivedPacket_swapped(processed, packet, throwing) ==
    IF processed.t # "null" /\ processed.t = "undefined"
    THEN [outcome |-> "fault", calls |-> <<>>, switchOn |-> FALSE]
    ELSE IF processed.t # "null" /\ indexOf(processed.v, packet.address) < 0
    THEN [outcome |-> "notAllowed", calls |-> <<>>, switchOn |-> FALSE]
    ELSE dispatch(handlersFor_swapped(packet), packet, throwing)

(* throwing: the handlers that raise an exception when they are called *)
onReceivedPacket(processed, packet, throwing) ==
    IF processed.t # "null" /\ processed.t = "undefined"
    THEN \* undefined.indexOf( ... ) raises a TypeError
         [outcome |-> "fault", calls |-> <<>>, switchOn |-> FALSE]
    ELSE IF processed.t # "null" /\ indexOf(processed.v, packet.address) < 0
    THEN [outcome |-> "notAllowed", calls |-> <<>>, switchOn |-> FALSE]
    ELSE dispatch(handlersFor(packet), packet, throwing)

----------------------------------------------------------------------------
(* BLEScanCallback, lines 339-375.  The handlers of CONFIG as shipped do  *)
(* not throw: BLEScanCallback passes no throwing handler.                 *)

(* unpackedData.pid *)
pidOf(unpackedData) == IF has(unpackedData, "pid") THEN unpackedData.pid ELSE undefined

undecodable_nullOnly(unpackedData) == unpackedData = NullRecord

undecodable_encryptedOnly(unpackedData) ==
    unpackedData # NullRecord /\ unpackedData.encryption

(* unpackedData === null || typeof unpackedData === "undefined" || unpackedData ["encryption"] *)
undecodable(unpackedData) ==
    unpackedData = NullRecord \/ unpackedData.encryption

duplicate_never(last, pid) == FALSE

duplicate_notNewer(last, pid) == pid <= last

(* lastPacketId === unpackedData.pid *)
duplicate(last, pid) == last = pid

(* the scanner's inputs *)
AddrSample == {<<"b", "0">>, <<"B", "0">>, <<"a", "a">>}

(* the entries written into CONFIG.allowedMacAddresses *)
MacSample == {<<"b", "0">>, <<"B", "0">>}

PidSample == {5, 6}

(* field bytes behind the pid: none, illuminance 1.09 and motion, motion *)
(* and illuminance 20.00                                                 *)
BodySample == {<<>>, <<5, 109, 0, 0, 33, 1>>, <<33, 1, 5, 208, 7, 0>>}

(* with a pid; illuminance only; without a pid (header only, motion only, *)
(* unknown first tag); encrypted; version 1; empty; not a string          *)
ServiceDataSample ==
    {String(<<64, 0, p>> \o body) : p \in PidSample, body \in BodySample}
    \cup {String(<<64, 0, 5, 5, 109, 0, 0>>),
          String(<<64>>), String(<<64, 33, 0>>), String(<<64, 255>>),
          String(<<65, 0, 5>>), String(<<32, 0, 5>>), String(<<>>),
          NotAString("number")}

(* the first advertisements after start-up: every pid of the one byte field *)
FirstSample == {String(<<64, 0, p>>) : p \in Byte}

(* advertisements handed to handlers that may throw *)
ThrowingSample ==
    {String(<<64, 0, 5>>), String(<<64, 0, 6, 33, 1>>),
     String(<<64, 0, 5, 5, 109, 0, 0, 33, 1>>), String(<<64, 5, 109, 0, 0>>)}

Handlers == {"motionHandler", "illuminanceHandler", "onStatusUpdate"}

(* BTHomeDecoder.unpack on every service data value the scanner delivers *)
unpacked ==
    [sd \in ServiceDataSample \cup FirstSample \cup ThrowingSample
            \cup {NotAString("undefined")} |-> unpack(sd)]

(* return paths of a callback whose record got past the decoder check *)
PastDecoder == {"duplicate", "notAllowed", "dispatched", "fault", "handlerFault"}

Callback(event, result, throwing) ==
    /\ pc = "subscribed"
    /\ arg' = [event |-> event, service_data |-> result.service_data,
               addr |-> result.addr, rssi |-> result.rssi]
    /\ before' = lastPacketId
    /\ prev' = [pid |-> IF outcome \in PastDecoder
                        THEN pidOf(unpacked[arg.service_data]) ELSE undefined,
                outcome |-> outcome]
    /\ seen' = IF outcome \in PastDecoder /\ has(unpacked[arg.service_data], "pid")
               THEN seen \cup {arg.addr} ELSE seen
    /\ IF event # "SCAN_RESULT" \/ result.service_data.t = "undefined"
       THEN /\ outcome' = "ignored"
            /\ data' = NullRecord /\ calls' = <<>> /\ switchOn' = FALSE
            /\ UNCHANGED lastPacketId
       ELSE LET unpackedData == unpacked[result.service_data]
            IN  IF undecodable(unpackedData)
                THEN /\ outcome' = "undecodable"
                     /\ data' = NullRecord /\ calls' = <<>> /\ switchOn' = FALSE
                     /\ UNCHANGED lastPacketId
                ELSE IF duplicate(lastPacketId, pidOf(unpackedData))
                THEN /\ outcome' = "duplicate"
                     /\ data' = NullRecord /\ calls' = <<>> /\ switchOn' = FALSE
                     /\ UNCHANGED lastPacketId
                ELSE LET packet == put(put(unpackedData, "rssi", result.rssi),
                                       "address", result.addr)
                         done   == onReceivedPacket(_processedMacAddresses, packet, throwing)
                     IN  /\ lastPacketId' = pidOf(unpackedData)
                         /\ data' = packet
                         /\ outcome' = done.outcome
                         /\ calls' = done.calls
                         /\ switchOn' = done.switchOn
    /\ UNCHANGED <<pc, allowedMacAddresses, _processedMacAddresses, decVars>>

BLEScanCallback ==
    \/ \E event \in {"SCAN_START", "SCAN_STOP"} :
           Callback(event, [service_data |-> Undefined, addr |-> <<>>, rssi |-> 0], {})
    \/ \E addr \in AddrSample :
           Callback("SCAN_RESULT", [service_data |-> Undefined, addr |-> addr, rssi |-> 0 - 53], {})
    \/ \E addr \in AddrSample, sd \in ServiceDataSample :
           Callback("SCAN_RESULT", [service_data |-> sd, addr |-> addr, rssi |-> 0 - 53], {})

----------------------------------------------------------------------------
(* init, lines 380-441 *)

(* enable: Shelly.getComponentConfig( "ble" ).enable.  Whether the scanner *)
(* was running or could be started only changes what is logged.            *)
init ==
    /\ pc = "boot"
    /\ \E enable \in BOOLEAN :
          IF ~enable
          THEN /\ pc' = "exited"
               /\ UNCHANGED _processedMacAddresses
          ELSE /\ pc' = "subscribed"
               /\ _processedMacAddresses' =
                      IF allowedMacAddresses.t # "undefined"
                      THEN IF allowedMacAddresses.t # "null"
                           THEN Array(filter(map(allowedMacAddresses.v)))
                           ELSE Null
                      ELSE _processedMacAddresses
    /\ UNCHANGED <<allowedMacAddresses, lastPacketId, arg, outcome, data, calls,
                   switchOn, before, prev, seen, decVars>>

(* the state after the script is loaded and before init() runs; the       *)
(* configuration is the one of the file or an edited one                  *)
Init ==
    /\ pc = "boot"
    /\ \/ allowedMacAddresses \in {Undefined, Null}
       \/ \E k \in 0 .. MaxMacs : \E a \in [1 .. k -> MacSample] :
              allowedMacAddresses = Array(a)
    /\ _processedMacAddresses = Undefined
    /\ lastPacketId = InitialPacketId
    /\ arg = NoArg
    /\ outcome = "none"
    /\ data = NullRecord
    /\ calls = <<>>
    /\ switchOn = FALSE
    /\ before = InitialPacketId
    /\ prev = [pid |-> undefined, outcome |-> "none"]
    /\ seen = {}
    /\ input = [hdr |-> 0, fields |-> <<>>, tail |-> <<>>, buffer |-> String(<<>>)]
    /\ output = NullRecord
    /\ dpc = "idle"
    /\ frame = NoFrame

Next == init \/ BLEScanCallback

Spec == Init /\ [][Next]_vars

(* the callback with handlers that may raise an exception (an edited      *)
(* handler, or Shelly.call refusing the request)                          *)
BLEScanCallbackThrowing ==
    \E addr \in AddrSample, sd \in ThrowingSample, throwing \in SUBSET Handlers :
        Callback("SCAN_RESULT", [service_data |-> sd, addr |-> addr, rssi |-> 0 - 53], throwing)

NextThrowing == init \/ BLEScanCallbackThrowing

SpecThrowing == Init /\ [][NextThrowing]_vars

(* no record carrying a pid has got past the decoder yet *)
NoPidYet ==
    /\ seen = {}
    /\ ~(outcome \in PastDecoder /\ has(unpacked[arg.service_data], "pid"))

(* the callbacks after start-up up to the first record that carries a pid, *)
(* which may carry any pid of the one byte field                           *)
FirstScanCallback ==
    /\ NoPidYet
    /\ \E addr \in AddrSample,
          sd \in FirstSample \cup {String(<<64>>), String(<<65, 0, 5>>)} :
           Callback("SCAN_RESULT", [service_data |-> sd, addr |-> addr, rssi |-> 0 - 53], {})

NextFirst == init \/ FirstScanCallback

SpecFirst == Init /\ [][NextFirst]_vars

----------------------------------------------------------------------------
(* Properties of the scan callback.  They speak about the latest callback: *)
(* its arguments (arg), lastPacketId when it was entered (before) and now, *)
(* and what it did (outcome, data, calls, switchOn).                       *)

(* the latest callback handed service data to the decoder *)
Scanned ==
    /\ pc = "subscribed"
    /\ arg.event = "SCAN_RESULT"
    /\ arg.service_data.t # "undefined"

(* the record the decoder returned to the latest callback *)
Record == unpacked[arg.service_data]

Decodable == Scanned /\ Record # NullRecord /\ ~Record.encryption

NonDuplicate == pidOf(Record) # before

CarriesPid == Decodable /\ has(Record, "pid")

Rejected == outcome \in {"ignored", "undecodable", "duplicate", "notAllowed"}

(* C1: lastPacketId is mutated only when a packet is accepted. A rejected  *)
(* advertisement (address not allowed, undecodable, duplicate) leaves      *)
(* lastPacketId as it was, and lastPacketId changes only for a record      *)
(* whose handlers are dispatched.  Stated for a CONFIG that carries the    *)
(* allowedMacAddresses setting, as a list or as null.                      *)
C1_MutatedOnlyOnAccept ==
    allowedMacAddresses.t # "undefined" =>
        /\ Rejected => lastPacketId = before
        /\ lastPacketId # before => outcome = "dispatched"

(* C2: with an allow-list configured, a decodable, non-duplicate packet is *)
(* dispatched to the handlers if and only if its lower-cased address       *)
(* equals the lower-cased form of some configured entry; any other packet  *)
(* invokes no handler.                                                     *)
C2_CaseInsensitiveAllowList ==
    (allowedMacAddresses.t = "array" /\ Decodable /\ NonDuplicate) =>
        LET listed == \E i \in DOMAIN allowedMacAddresses.v :
                          toLowerCase(allowedMacAddresses.v[i]) = toLowerCase(arg.addr)
        IN  /\ listed <=> (outcome = "dispatched" /\ calls # <<>>)
            /\ ~listed => (outcome = "notAllowed" /\ calls = <<>>)

(* the address filter as the code applies it *)
AddressPasses ==
    \/ _processedMacAddresses.t = "null"
    \/ /\ _processedMacAddresses.t = "array"
       /\ \E i \in DOMAIN _processedMacAddresses.v : _processedMacAddresses.v[i] = arg.addr

(* the callback before the latest one got a record past the decoder *)
PrevDecodable == prev.outcome \in PastDecoder

(* C3: duplicate suppression. When the latest callback carries the same    *)
(* pid as the callback before it, it is rejected as duplicate and invokes  *)
(* no handler; when it carries a pid different from the one before, it is  *)
(* not a duplicate: its record is handed on with lastPacketId set to its   *)
(* pid, and its handlers are invoked when its address passes the filter.   *)
C3_DuplicateSuppression ==
    /\ (CarriesPid /\ PrevDecodable /\ prev.pid = pidOf(Record)) =>
           (outcome = "duplicate" /\ calls = <<>> /\ ~switchOn /\ lastPacketId = before)
    /\ (CarriesPid /\ PrevDecodable /\ prev.pid # pidOf(Record)) =>
           /\ outcome # "duplicate"
           /\ lastPacketId = pidOf(Record)
           /\ data # NullRecord /\ data.pid = pidOf(Record)
           /\ AddressPasses =>
                  (outcome = "dispatched" /\ calls # <<>>
                      /\ calls[Len(calls)] = "onStatusUpdate")

(* pid 5 was just suppressed as a duplicate, then pid 6 arrives and is dispatched *)
C3_Witness ==
    /\ CarriesPid
    /\ prev = [pid |-> 5, outcome |-> "duplicate"]
    /\ pidOf(Record) = 6
    /\ before = 5
    /\ lastPacketId = 6
    /\ outcome = "dispatched"
    /\ calls = <<"onStatusUpdate">>

(* C4: with no allow-list configured (null or absent) no advertisement is  *)
(* rejected for its address, and a decodable, non-duplicate packet from    *)
(* any address reaches the handlers.                                       *)
C4_NoAllowListAllowsAll ==
    (pc = "subscribed" /\ allowedMacAddresses.t \in {"null", "undefined"}) =>
        /\ outcome # "notAllowed"
        /\ (Decodable /\ NonDuplicate) =>
               (outcome = "dispatched" /\ calls # <<>>)

(* C6: no handler for an undecodable advertisement. When the decoder       *)
(* returns null or a record with the encryption flag set, none of the      *)
(* three handlers is called and nothing is switched.                       *)
C6_NoHandlerWhenUndecodable ==
    (Scanned /\ (Record = NullRecord \/ Record.encryption)) =>
        /\ calls = <<>>
        /\ ~switchOn
        /\ data = NullRecord
        /\ outcome = "undecodable"

(* an encrypted version 2 advertisement carrying a fresh pid from an allowed address *)
C6_Witness ==
    /\ Scanned
    /\ arg.service_data = String(<<65, 0, 5>>)
    /\ Record = [encryption |-> TRUE, BTHome_version |-> 2]
    /\ AddressPasses
    /\ before # 5
    /\ outcome = "undecodable"
    /\ calls = <<>>

Selected(flags, names) ==
    LET RECURSIVE sel(_)
        sel(i) == IF i > Len(names) THEN <<>>
                  ELSE (IF flags[i] THEN <<names[i]>> ELSE <<>>) \o sel(i + 1)
    IN  sel(1)

(* C10: routing of an admitted record. The motion handler is invoked iff   *)
(* the record has a motion field, the illuminance handler iff it has an    *)
(* illuminance field, the update handler always; in that order, each at    *)
(* most once, and each with the admitted record.                           *)
C10_Routing ==
    outcome = "dispatched" =>
        /\ calls = Selected(<<"motion" \in DOMAIN Record, "illuminance" \in DOMAIN Record, TRUE>>,
                            <<"motionHandler", "illuminanceHandler", "onStatusUpdate">>)
        /\ \A name \in DOMAIN Record : data[name] = Record[name]
        /\ data.address = arg.addr

(* a record with illuminance and motion, and one with neither *)
C10_Witness ==
    /\ outcome = "dispatched"
    /\ arg.service_data = String(<<64, 0, 5, 5, 109, 0, 0, 33, 1>>)
    /\ calls = <<"motionHandler", "illuminanceHandler", "onStatusUpdate">>
    /\ switchOn

(* the latest callback handed its record to the handlers: it passed the   *)
(* decoder check, the duplicate check and the address check               *)
Admitted == outcome \in {"dispatched", "handlerFault"}

Called(name) == \E i \in DOMAIN calls : calls[i] = name

(* C11: handler independence under failure. For an admitted record the     *)
(* illuminance handler is invoked when the record has an illuminance       *)
(* field and the update handler is invoked, also when a handler called     *)
(* before them has failed.                                                 *)
C11_HandlersIndependent ==
    Admitted =>
        /\ has(Record, "illuminance") => Called("illuminanceHandler")
        /\ Called("onStatusUpdate")

(* C13: lastPacketId is the initial sentinel or an integer in 0..255, also *)
(* after a record without a pid field was handed on.                       *)
C13_LastPacketIdInRange ==
    lastPacketId = InitialPacketId \/ lastPacketId \in 0 .. 255

C18_GlobalDuplicateCheck ==
    Decodable => (outcome = "duplicate" <=> pidOf(Record) = before)

(* a device none of whose records carried a pid so far is suppressed *)
(* because its pid equals the one stored from another device         *)
C18_Witness ==
    /\ CarriesPid
    /\ seen # {}
    /\ arg.addr \notin seen
    /\ AddressPasses
    /\ pidOf(Record) = before
    /\ outcome = "duplicate"
    /\ calls = <<>>

(* C19: callbacks with nothing to decode. An event that is no scan result, *)
(* a result without BTHome service data, or service data that is empty or  *)
(* not a string, invokes no handler and leaves lastPacketId unchanged.     *)
C19_NothingToDecode ==
    (/\ pc = "subscribed"
     /\ outcome # "none"
     /\ \/ arg.event # "SCAN_RESULT"
        \/ arg.service_data.t # "string"
        \/ arg.service_data.v = <<>>) =>
        /\ calls = <<>>
        /\ ~switchOn
        /\ data = NullRecord
        /\ lastPacketId = before
        /\ outcome \in {"ignored", "undecodable"}

(* empty service data from an allowed address after pid 5 was stored *)
C19_Witness ==
    /\ arg.event = "SCAN_RESULT"
    /\ arg.service_data = String(<<>>)
    /\ AddressPasses
    /\ outcome = "undecodable"
    /\ before = 5
    /\ lastPacketId = 5
    /\ calls = <<>>

----------------------------------------------------------------------------
(* Claims about one read, stated on arithmetic and not on bit operations *)

Width == (uint8 :> 1) @@ (int8 :> 1) @@ (uint16 :> 2) @@ (int16 :> 2) @@
         (uint24 :> 3) @@ (int24 :> 3)

SignedTypes == {int8, int16, int24}

(* sum of bytes[i] * 256^i over the first w bytes, i counted from zero *)
RECURSIVE LittleEndian(_, _)
LittleEndian(bytes, w) ==
    IF w = 0 THEN 0 ELSE Head(bytes) + 256 * LittleEndian(Tail(bytes), w - 1)

(* a read of a buffer that holds at least the width of the type is done *)
ReadDone == dpc = "done" /\ Len(input.buffer) >= Width[input.type]

(* C15: range of a signed read of width W in {1, 2, 3}: within             *)
(* -2^(8W-1) .. -1 when the top bit of the last of the W bytes is set,     *)
(* within 0 .. 2^(8W-1) - 1 when it is clear.                              *)
C15_SignedRange ==
    (ReadDone /\ input.type \in SignedTypes) =>
        LET W    == Width[input.type]
            half == 2^(8 * W - 1)
        IN  IF input.buffer[W] >= 128
            THEN 0 - half <= output /\ output <= 0 - 1
            ELSE 0 <= output /\ output <= half - 1

(* the lowest value of the three byte signed read *)
C15_Witness ==
    /\ ReadDone
    /\ input.type = int24
    /\ input.buffer = <<0, 0, 128>>
    /\ output = 0 - 8388608

(* C16: little-endian reads.  An unsigned read of width W is the sum of    *)
(* byte[i] * 256^i over the first W bytes, whatever bytes follow; a signed *)
(* read is that sum minus 2^(8W) exactly when the sum is at least          *)
(* 2^(8W-1).                                                               *)
C16_LittleEndian ==
    ReadDone =>
        LET W == Width[input.type]
            u == LittleEndian(input.buffer, W)
        IN  output = IF input.type \in SignedTypes /\ u >= 2^(8 * W - 1)
                     THEN u - 2^(8 * W)
                     ELSE u

(* two bytes read as 1 + 128 * 256 - 65536, the bytes after them ignored *)
C16_Witness ==
    /\ ReadDone
    /\ input.type = int16
    /\ input.buffer = <<1, 128, 255, 255>>
    /\ output = 0 - 32767

----------------------------------------------------------------------------
(* Claims about unpack run in steps *)

(* bytes of the value that follows a tag of the object id table *)
TagWidth == (0 :> 1) @@ (1 :> 1) @@ (2 :> 2) @@ (3 :> 2) @@ (5 :> 3) @@
            (33 :> 1) @@ (45 :> 1) @@ (58 :> 1) @@ (63 :> 2)

(* a pass of the loop after which the loop goes on *)
LoopGoesOn == dpc = "loop" /\ dpc' = "loop"

(* the loop is left *)
LoopStops == dpc = "loop" /\ dpc' # "loop"

(* C12: the decode loop terminates.  A pass that goes on has shortened the *)
(* remaining buffer by 1 + width bytes; a pass stops only at the end of    *)
(* the buffer, at an unknown tag or at a truncated value; the passes made  *)
(* never exceed the length of the input; unpack eventually returns.        *)
C12_LoopTerminates ==
    /\ [](frame.iterations <= Len(input.buffer.v))
    /\ [][/\ LoopGoesOn =>
                /\ frame.buffer # <<>>
                /\ frame.buffer[1] \in DOMAIN TagWidth
                /\ Len(frame'.buffer) = Len(frame.buffer) - (1 + TagWidth[frame.buffer[1]])
                /\ frame'.iterations = frame.iterations + 1
          /\ LoopStops =>
                \/ frame.buffer = <<>>
                \/ frame.buffer[1] \notin DOMAIN TagWidth
                \/ Len(frame.buffer) - 1 < TagWidth[frame.buffer[1]]]_vars
    /\ <>(dpc = "done")

(* two passes that go on, a one byte and a two byte value, use up the buffer *)
C12_Witness ==
    /\ dpc = "done"
    /\ input.buffer = String(<<64, 0, 5, 2, 0, 255>>)
    /\ frame.iterations = 2
    /\ frame.buffer = <<>>

(* C14: the decoder raises no fault.  For every input unpack does not end  *)
(* in a TypeError, and what it returns is null or an object with the two   *)
(* header properties, the same value the one-step unpack yields.           *)
C14_NoDecoderFault ==
    /\ dpc # "fault"
    /\ dpc = "done" =>
          /\ output = NullRecord \/ HeaderNames \subseteq DOMAIN output
          /\ output = unpack(input.buffer)

(* a value cut short ends the loop: the record holds the pid only *)
C14_Witness ==
    /\ dpc = "done"
    /\ input.buffer = String(<<64, 0, 5, 5, 0>>)
    /\ output # NullRecord
    /\ DOMAIN output = HeaderNames \cup {"pid"}
    /\ frame.iterations = 2

====
